---- MODULE Spec2Model ----
(***************************************************************************)
(* Ingestion pipeline of the Library-of-Babel repository.                  *)
(*                                                                         *)
(*   channel_import_pipeline.py : one producer thread, N consumer threads, *)
(*       a bounded Queue, the coordinator (main) and the shared stats,     *)
(*       locks and done_event.                                             *)
(*   channel_import_parallel.py : the thread pool importer: main and the   *)
(*       pool workers running process_video_parallel.                      *)
(*   batch_import.py            : get_existing_video_ids, load_pending,    *)
(*       save_pending (the failure journal pending.json).                  *)
(*                                                                         *)
(* Every thread is a small program counter machine; one action is one      *)
(* step of one thread between two points where another thread may run.     *)
(***************************************************************************)
EXTENDS Integers, Sequences, FiniteSets, TLC

(***************************************************************************)
(* Bounds of the model.                                                    *)
(***************************************************************************)
\* longest discovery list handed to main
MaxVideos == 2
\* largest --consumers value
MaxConsumers == 2
\* capacity of video_queue; stands for Queue(maxsize=20)
maxsize == 1
\* largest --workers value of channel_import_parallel.py
MaxWorkers == 2

\* video ids the discovery source may yield
VideoIds == {"A", "B"}
\* what get_existing_video_ids may return
ExistingChoices == {{}, {"B"}}
\* what pending.json may hold when the run starts (ids of its records)
PendingChoices == {<<>>, <<"A">>}
\* value of --vpn-rotate in the short runs: a switch on every second attempt
RotateChoices == {2}
\* length of the discovery list of the runs that follow the VPN rotation
RotateVideos == 5
\* the channel of those runs, and their values of --vpn-rotate
LongChannel == <<"V1", "V2", "V3", "V4", "V5", "V6">>
LongRotateChoices == {0, 5}
\* the runs with the site updater: length of the discovery list, largest
\* --consumers and the values of --site-update
WatchVideos == 2
WatchConsumers == 2
SiteUpdateChoices == {1, 2}
\* behaviours of the fetch adapter for one item: the number of attempts that
\* raise before one would succeed (max_retries: never within the retries)
FetchFailChoices == {0, 2, 3}

(***************************************************************************)
(* Names of threads and of the values the code uses.                       *)
(***************************************************************************)
ConsumerNames == <<"consumer-0", "consumer-1", "consumer-2", "consumer-3">>
WorkerNames == <<"ThreadPoolExecutor-0_0", "ThreadPoolExecutor-0_1",
                 "ThreadPoolExecutor-0_2", "ThreadPoolExecutor-0_3">>
NoThread == "none"
\* the poison pill: video_queue.put(None)
None == 0
\* a consumer that holds no item
NoItem == -1

VARIABLES
    \* inputs of the run
    videos,                \* fetch_channel_videos(): discovery list of ids
    existing_ids,          \* get_existing_video_ids()
    consumers,             \* args.consumers
    vpn_rotate,            \* args.vpn_rotate
    site_update,           \* args.site_update
    \* shared state
    to_process,            \* main: the filtered work list
    video_queue,           \* Queue(maxsize): indexes into to_process, or None
    unfinished_tasks,      \* Queue.unfinished_tasks (put / task_done / join)
    stats,                 \* stats dict
    stats_lock,            \* holder of stats_lock
    pending_lock,          \* holder of pending_lock
    done_event,            \* done_event.is_set()
    pending_file,          \* pending.json: video_id of each record, in order
    pc,                    \* position of every thread
    \* producer locals
    i, attempts, consecutive_failures, last_vpn_switch, fetched, pending,
    \* consumer locals
    item,                  \* item[c]: index held by consumer c
    outcome,               \* outcome[c]: "ok" / "fail" of the try block
    \* main locals
    pills,                 \* iterations done of the poison pill loop
    \* site_updater locals
    last_count,            \* succeeded count at the last regeneration
    current,               \* succeeded count read in this cycle
    \* channel_import_parallel.py
    workers,               \* args.workers
    next_task,             \* executor: index of the next task to hand out
    futures_done,          \* executor: futures that have completed
    worker,                \* worker[w]: video (task), attempt and pending
    yielded,               \* main: futures seen by the as_completed loop
    last_vpn_switch_at,    \* main
    \* what an observer of the run sees; written, never read, by the program:
    \*   fetch_fails[k]  adapter behaviour revealed for item k of to_process
    \*   fetch_calls[k]  calls of fetch_transcript for item k
    \*   puts[k]         video_queue.put of the payload of item k
    \*   gets[k]         video_queue.get returning the payload of item k
    \*   results[k]      how the consumer's try block ended for item k
    \*   counted[k]      increments of stats["processed"] for item k
    \*   acked[k]        task_done calls for item k
    \*   appended        ids appended to pending.json in this run, in order
    \*   journaled[k]    runs of the append block of pending.json for item k
    \*   contended       a thread took pending_lock while another waited
    \*   switched        values of attempts at which switch_vpn ran
    \*   sets            calls of done_event.set()
    \*   pfailed         items the producer counted in stats["failed"]
    \*   io_errors       items whose append to pending.json hit an I/O error
    \*   site_calls      calls of generate_site made by site_updater
    \*   site_fails      calls of generate_site in site_updater that raised
    obs

config == <<videos, existing_ids, consumers, vpn_rotate, site_update>>
shared == <<to_process, video_queue, unfinished_tasks, stats, stats_lock,
            pending_lock, done_event, pending_file>>
plocals == <<i, attempts, consecutive_failures, last_vpn_switch, fetched, pending>>
clocals == <<item, outcome>>
wlocals == <<last_count, current>>
pool == <<workers, next_task, futures_done, worker, yielded, last_vpn_switch_at>>
vars == <<config, shared, pc, plocals, clocals, wlocals, pills, pool, obs>>

Consumers == {ConsumerNames[k] : k \in 1..consumers}
Workers == {WorkerNames[k] : k \in 1..workers}
Threads == {"main", "producer", "site-updater"} \cup Consumers \cup Workers

\* a with block entered without waiting for its lock
Acquirable_Always(lock) == TRUE

\* Lock.acquire returns when no thread holds the lock
Acquirable(lock) == lock = NoThread

\* a with block left without releasing its lock
Release_Kept(lock) == lock

\* the end of a with block: Lock.release
Release(lock) == NoThread

(***************************************************************************)
(* main, lines 295-313: filter the discovery list and start the threads.   *)
(***************************************************************************)
\* v.get('videoId') is truthy
HasId(v) == v # ""

\* the filter of line 299 without the existing_ids test
NewVideos_NoFilter(vs, existing) ==
    SelectSeq(vs, LAMBDA v : HasId(v))

\* line 299
NewVideos(vs, existing) ==
    SelectSeq(vs, LAMBDA v : HasId(v) /\ v \notin existing)

Zeros(n) == [k \in 1..n |-> 0]

main_start ==
    /\ pc["main"] = "m_filter"
    /\ to_process' = NewVideos(videos, existing_ids)
    /\ obs' = [obs EXCEPT !.fetch_fails = [k \in 1..Len(to_process') |-> -1],
                          !.fetch_calls = Zeros(Len(to_process')),
                          !.puts = Zeros(Len(to_process')),
                          !.gets = Zeros(Len(to_process')),
                          !.results = [k \in 1..Len(to_process') |-> "none"],
                          !.counted = Zeros(Len(to_process')),
                          !.acked = Zeros(Len(to_process')),
                          !.journaled = Zeros(Len(to_process'))]
    /\ IF to_process' = <<>>
       THEN pc' = [pc EXCEPT !["main"] = "m_done"]
       ELSE pc' = [t \in Threads |->
                     CASE t = "main" -> "m_join_producer"
                       [] t = "producer" -> "p_loop"
                       [] t = "site-updater" ->
                            IF site_update > 0 THEN "u_loop" ELSE "idle"
                       [] OTHER -> "c_loop"]
    /\ UNCHANGED <<config, wlocals, pool, video_queue, unfinished_tasks, stats, stats_lock,
                   pending_lock, done_event, pending_file, plocals, clocals,
                   pills>>

(***************************************************************************)
(* producer, lines 102-179.                                                *)
(***************************************************************************)
\* the literal 3 of "consecutive_failures >= 3", line 129
FailureThreshold == 3

\* line 128
ShouldRotate(att, last, rot) ==
    att > 0 /\ att > last /\ att % rot = 0

\* lines 127-129 without "or consecutive_failures >= 3"
Rotates_IntervalOnly(att, last, rot, failures) ==
    rot > 0 /\ ShouldRotate(att, last, rot)

\* the failure trigger outside the test of vpn_rotate > 0
Rotates_ThresholdUnguarded(att, last, rot, failures) ==
    failures >= FailureThreshold \/ (rot > 0 /\ ShouldRotate(att, last, rot))

\* lines 127-130: switch_vpn is called in this iteration
Rotates(att, last, rot, failures) ==
    rot > 0 /\ (ShouldRotate(att, last, rot) \/ failures >= FailureThreshold)

\* the n-th call of fetch_transcript on an item whose adapter behaviour is k
FetchRaises(k, n) == n <= k

\* lines 150-152
CountFetched(s) == [s EXCEPT !.fetched = @ + 1]

\* a fetch failure that is not counted
CountFetchFailure_Skipped(s) == s

\* lines 176-177
CountFetchFailure(s) == [s EXCEPT !.failed = @ + 1]

\* an unbounded Queue(): put never waits
QueueFull_Never(q) == FALSE

\* Queue.put blocks while the queue holds maxsize entries
QueueFull(q) == Len(q) >= maxsize

\* load_pending always taking its fallback, line 61
load_pending_Empty(file) == <<>>

\* load_pending, batch_import.py lines 53-61: the records of pending.json
load_pending(file) == file

\* the append of line 165 without the test of line 164
AppendPending_NoDedup(records, id) == Append(records, id)

\* lines 164-171: append a record unless one with this video_id is there
AppendPending(records, id) ==
    IF id \notin {records[k] : k \in 1..Len(records)}
    THEN Append(records, id)
    ELSE records

\* a loop that passes over every other element
NextItem_Skips(n) == n + 2

\* line 114: enumerate(videos, 1) yields the elements in list order
NextItem(n) == n + 1

\* lines 114-134: next element of the for loop, the done_event check, the
\* pacing sleep, attempts += 1 and the VPN rotation
p_loop ==
    /\ pc["producer"] = "p_loop"
    /\ IF i = Len(to_process) \/ done_event
       THEN /\ pc' = [pc EXCEPT !["producer"] = "p_done"]
            /\ UNCHANGED <<plocals, obs>>
       ELSE /\ i' = NextItem(i)
            /\ attempts' = attempts + 1
            /\ IF Rotates(attempts', last_vpn_switch, vpn_rotate, consecutive_failures)
               THEN /\ obs' = [obs EXCEPT !.switched = @ \cup {attempts'}]
                    /\ last_vpn_switch' = attempts'
                    /\ consecutive_failures' = 0
               ELSE UNCHANGED <<obs, last_vpn_switch, consecutive_failures>>
            /\ pc' = [pc EXCEPT !["producer"] = "p_fetch"]
            /\ UNCHANGED <<fetched, pending>>
    /\ UNCHANGED <<config, wlocals, pool, shared, clocals, pills>>

\* lines 136-138 and 155-158: fetch_transcript returns or raises
p_fetch ==
    /\ pc["producer"] = "p_fetch"
    /\ \E k \in FetchFailChoices :
         /\ obs' = [obs EXCEPT !.fetch_fails[i] = IF @ = -1 THEN k ELSE @,
                                !.fetch_calls[i] = @ + 1]
         /\ IF FetchRaises(obs'.fetch_fails[i], obs'.fetch_calls[i])
            THEN /\ consecutive_failures' = consecutive_failures + 1
                 /\ pc' = [pc EXCEPT !["producer"] = "p_lock_pending"]
            ELSE /\ pc' = [pc EXCEPT !["producer"] = "p_put"]
                 /\ UNCHANGED consecutive_failures
    /\ UNCHANGED <<config, wlocals, pool, shared, i, attempts, last_vpn_switch, fetched,
                   pending, clocals, pills>>

\* lines 141-148: video_queue.put(payload), blocking while the queue is full
p_put ==
    /\ pc["producer"] = "p_put"
    /\ ~QueueFull(video_queue)
    /\ video_queue' = Append(video_queue, i)
    /\ unfinished_tasks' = unfinished_tasks + 1
    /\ obs' = [obs EXCEPT !.puts[i] = @ + 1]
    /\ pc' = [pc EXCEPT !["producer"] = "p_lock_stats"]
    /\ UNCHANGED <<config, wlocals, pool, to_process, stats, stats_lock, pending_lock,
                   done_event, pending_file, plocals, clocals, pills>>

\* line 150: with stats_lock
p_lock_stats ==
    /\ pc["producer"] = "p_lock_stats"
    /\ Acquirable(stats_lock)
    /\ stats_lock' = "producer"
    /\ pc' = [pc EXCEPT !["producer"] = "p_count_fetched"]
    /\ UNCHANGED <<config, wlocals, pool, to_process, video_queue, unfinished_tasks, stats,
                   pending_lock, done_event, pending_file, plocals, clocals,
                   pills, obs>>

\* lines 151-153: count the fetch, leave the lock, reset the failure streak
p_count_fetched ==
    /\ pc["producer"] = "p_count_fetched"
    /\ stats' = CountFetched(stats)
    /\ fetched' = fetched + 1
    /\ stats_lock' = Release(stats_lock)
    /\ consecutive_failures' = 0
    /\ pc' = [pc EXCEPT !["producer"] = "p_loop"]
    /\ UNCHANGED <<config, wlocals, pool, to_process, video_queue, unfinished_tasks,
                   pending_lock, done_event, pending_file, i, attempts,
                   last_vpn_switch, pending, clocals, pills, obs>>

\* line 161: with pending_lock
p_lock_pending ==
    /\ pc["producer"] = "p_lock_pending"
    /\ Acquirable(pending_lock)
    /\ pending_lock' = "producer"
    /\ pc' = [pc EXCEPT !["producer"] = "p_load_pending"]
    /\ UNCHANGED <<config, wlocals, pool, to_process, video_queue, unfinished_tasks, stats,
                   stats_lock, done_event, pending_file, plocals, clocals,
                   pills, obs>>

\* line 163: pending = load_pending()
p_load_pending ==
    /\ pc["producer"] = "p_load_pending"
    /\ pending' = load_pending(pending_file)
    /\ pc' = [pc EXCEPT !["producer"] = "p_save_pending"]
    /\ UNCHANGED <<config, wlocals, pool, shared, i, attempts, consecutive_failures,
                   last_vpn_switch, fetched, clocals, pills, obs>>

\* lines 164-172: append unless present, save_pending, leave the lock
p_save_pending ==
    /\ pc["producer"] = "p_save_pending"
    /\ pending' = AppendPending(pending, to_process[i])
    /\ IF pending' # pending
       THEN /\ pending_file' = pending'
            /\ obs' = [obs EXCEPT !.appended = Append(@, to_process[i]),
                                   !.journaled[i] = @ + 1]
       ELSE /\ obs' = [obs EXCEPT !.journaled[i] = @ + 1]
            /\ UNCHANGED pending_file
    /\ pending_lock' = Release(pending_lock)
    /\ pc' = [pc EXCEPT !["producer"] = "p_lock_failed"]
    /\ UNCHANGED <<config, wlocals, pool, to_process, video_queue, unfinished_tasks, stats,
                   stats_lock, done_event, i, attempts, consecutive_failures,
                   last_vpn_switch, fetched, clocals, pills>>

\* line 176: with stats_lock
p_lock_failed ==
    /\ pc["producer"] = "p_lock_failed"
    /\ Acquirable(stats_lock)
    /\ stats_lock' = "producer"
    /\ pc' = [pc EXCEPT !["producer"] = "p_count_failed"]
    /\ UNCHANGED <<config, wlocals, pool, to_process, video_queue, unfinished_tasks, stats,
                   pending_lock, done_event, pending_file, plocals, clocals,
                   pills, obs>>

\* line 177: stats["failed"] += 1, leave the lock
p_count_failed ==
    /\ pc["producer"] = "p_count_failed"
    /\ stats' = CountFetchFailure(stats)
    /\ obs' = [obs EXCEPT !.pfailed = @ \cup {i}]
    /\ stats_lock' = Release(stats_lock)
    /\ pc' = [pc EXCEPT !["producer"] = "p_loop"]
    /\ UNCHANGED <<config, wlocals, pool, to_process, video_queue, unfinished_tasks,
                   pending_lock, done_event, pending_file, plocals, clocals,
                   pills>>

\* an exception of the journal code that is not caught: it ends the thread
AfterJournalError_Propagates == "p_done"

\* lines 173-176: except Exception: pass, then the with stats_lock block
AfterJournalError == "p_lock_failed"

\* line 163 when pending.json cannot be read or parsed: load_pending returns
\* its empty structure (batch_import.py line 61), or returns what the file
\* holds and line 164 raises on it
p_load_pending_error ==
    /\ pc["producer"] = "p_load_pending"
    /\ obs' = [obs EXCEPT !.io_errors = @ \cup {i}]
    /\ \/ /\ pending' = <<>>
          /\ pc' = [pc EXCEPT !["producer"] = "p_save_pending"]
          /\ UNCHANGED pending_lock
       \/ /\ pending_lock' = Release(pending_lock)
          /\ pc' = [pc EXCEPT !["producer"] = AfterJournalError]
          /\ UNCHANGED pending
    /\ UNCHANGED <<config, wlocals, pool, to_process, video_queue, unfinished_tasks,
                   stats, stats_lock, done_event, pending_file, i, attempts,
                   consecutive_failures, last_vpn_switch, fetched, clocals, pills>>

\* line 172 when save_pending raises (batch_import.py lines 64-67): open
\* failed and the file is as it was, or the file was truncated by open and
\* the dump did not complete, which load_pending reads as no records
p_save_pending_error ==
    /\ pc["producer"] = "p_save_pending"
    /\ AppendPending(pending, to_process[i]) # pending
    /\ pending_file' \in {pending_file, <<>>}
    /\ obs' = [obs EXCEPT !.io_errors = @ \cup {i}]
    /\ pending_lock' = Release(pending_lock)
    /\ pc' = [pc EXCEPT !["producer"] = AfterJournalError]
    /\ UNCHANGED <<config, wlocals, pool, to_process, video_queue, unfinished_tasks,
                   stats, stats_lock, done_event, plocals, clocals, pills>>

producer ==
    \/ p_loop
    \/ p_fetch
    \/ p_put
    \/ p_lock_stats
    \/ p_count_fetched
    \/ p_lock_pending
    \/ p_load_pending
    \/ p_save_pending
    \/ p_lock_failed
    \/ p_count_failed

(***************************************************************************)
(* consumer, lines 182-238.                                                *)
(***************************************************************************)
\* line 227
IncSuccess(s) == [s EXCEPT !.success = @ + 1]

\* line 234
IncFailed(s) == [s EXCEPT !.failed = @ + 1]

\* the block without its second statement
IncProcessed_Skipped(s) == s

\* lines 228 and 235
IncProcessed(s) == [s EXCEPT !.processed = @ + 1]

\* line 186: while not done_event.is_set()
c_loop(c) ==
    /\ pc[c] = "c_loop"
    /\ pc' = [pc EXCEPT ![c] = IF done_event THEN "c_exit" ELSE "c_get"]
    /\ UNCHANGED <<config, wlocals, pool, shared, plocals, clocals, pills, obs>>

\* a get that returns the head of the queue and leaves it there
Dequeue_Peek(q) == q

\* Queue.get removes the entry it returns
Dequeue(q) == Tail(q)

\* lines 187-198: video_queue.get(timeout=5); Empty after the timeout leads
\* back to the loop test, the poison pill leaves the loop
c_get(c) ==
    /\ pc[c] = "c_get"
    /\ IF video_queue = <<>>
       THEN /\ pc' = [pc EXCEPT ![c] = "c_loop"]
            /\ UNCHANGED <<video_queue, item, obs>>
       ELSE /\ video_queue' = Dequeue(video_queue)
            /\ item' = [item EXCEPT ![c] = Head(video_queue)]
            /\ IF Head(video_queue) = None
               THEN /\ pc' = [pc EXCEPT ![c] = "c_exit"]
                    /\ UNCHANGED obs
               ELSE /\ pc' = [pc EXCEPT ![c] = "c_process"]
                    /\ obs' = [obs EXCEPT !.gets[Head(video_queue)] = @ + 1]
    /\ UNCHANGED <<config, wlocals, pool, to_process, unfinished_tasks, stats, stats_lock,
                   pending_lock, done_event, pending_file, plocals, outcome,
                   pills>>

\* lines 207-224 and 232: generate_metadata and the writes return or raise
c_process(c) ==
    /\ pc[c] = "c_process"
    /\ \E o \in {"ok", "fail"} :
         /\ outcome' = [outcome EXCEPT ![c] = o]
         /\ obs' = [obs EXCEPT !.results[item[c]] = o]
    /\ pc' = [pc EXCEPT ![c] = "c_lock_stats"]
    /\ UNCHANGED <<config, wlocals, pool, shared, plocals, item, pills>>

\* lines 226 and 233: with stats_lock
c_lock_stats(c) ==
    /\ pc[c] = "c_lock_stats"
    /\ Acquirable(stats_lock)
    /\ stats_lock' = c
    /\ pc' = [pc EXCEPT ![c] = "c_count"]
    /\ UNCHANGED <<config, wlocals, pool, to_process, video_queue, unfinished_tasks, stats,
                   pending_lock, done_event, pending_file, plocals, clocals,
                   pills, obs>>

\* lines 227 and 234: the first statement of the block
c_count(c) ==
    /\ pc[c] = "c_count"
    /\ stats' = IF outcome[c] = "ok" THEN IncSuccess(stats) ELSE IncFailed(stats)
    /\ pc' = [pc EXCEPT ![c] = "c_count_processed"]
    /\ UNCHANGED <<config, wlocals, pool, to_process, video_queue, unfinished_tasks,
                   stats_lock, pending_lock, done_event, pending_file, plocals,
                   clocals, pills, obs>>

\* lines 228 and 235: stats["processed"] += 1, leave the lock
c_count_processed(c) ==
    /\ pc[c] = "c_count_processed"
    /\ stats' = IncProcessed(stats)
    /\ obs' = [obs EXCEPT !.counted[item[c]] = @ + stats'.processed - stats.processed]
    /\ stats_lock' = Release(stats_lock)
    /\ pc' = [pc EXCEPT ![c] = "c_task_done"]
    /\ UNCHANGED <<config, wlocals, pool, to_process, video_queue, unfinished_tasks,
                   pending_lock, done_event, pending_file, plocals, clocals,
                   pills>>

\* an iteration that ends without its acknowledgement
task_done_Missing(unfinished) == unfinished

\* Queue.task_done: one unfinished task less
task_done(unfinished) == unfinished - 1

\* line 238: video_queue.task_done()
c_task_done(c) ==
    /\ pc[c] = "c_task_done"
    /\ unfinished_tasks' = task_done(unfinished_tasks)
    /\ item' = [item EXCEPT ![c] = NoItem]
    /\ outcome' = [outcome EXCEPT ![c] = "none"]
    /\ obs' = [obs EXCEPT !.acked[item[c]] = @ + 1]
    /\ pc' = [pc EXCEPT ![c] = "c_loop"]
    /\ UNCHANGED <<config, wlocals, pool, to_process, video_queue, stats, stats_lock,
                   pending_lock, done_event, pending_file, plocals, pills>>

\* a step of the consumer thread c
consume(c) ==
    \/ c_loop(c)
    \/ c_get(c)
    \/ c_process(c)
    \/ c_lock_stats(c)
    \/ c_count(c)
    \/ c_count_processed(c)
    \/ c_task_done(c)

consumer == \E c \in Consumers : consume(c)

(***************************************************************************)
(* site_updater, lines 241-260; main starts it as a daemon thread when     *)
(* args.site_update > 0 (lines 346-350) and never joins it.                *)
(***************************************************************************)
\* main has returned: the interpreter exits and ends its daemon threads,
\* of which site_updater is one (line 349)
Exited == pc["main"] = "m_done"

\* the test of line 253 with > in place of >=
SiteDue_Exceeds(cur, last, interval) == cur > last + interval

\* line 253
SiteDue(cur, last, interval) == cur >= last + interval

\* an exception of generate_site leaving site_updater
AfterSiteUpdate_Raises(result) == IF result = "fail" THEN "u_exit" ELSE "u_loop"

\* lines 255-260: the try block ends or its handler runs, then the loop goes on
AfterSiteUpdate(result) == "u_loop"

\* line 247: while not done_event.is_set()
u_loop ==
    /\ pc["site-updater"] = "u_loop"
    /\ ~Exited
    /\ pc' = [pc EXCEPT !["site-updater"] = IF done_event THEN "u_exit"
                                            ELSE "u_lock_stats"]
    /\ UNCHANGED <<config, wlocals, pool, shared, plocals, clocals, pills, obs>>

\* lines 248-250: time.sleep(30), then with stats_lock
u_lock_stats ==
    /\ pc["site-updater"] = "u_lock_stats"
    /\ ~Exited
    /\ Acquirable(stats_lock)
    /\ stats_lock' = "site-updater"
    /\ pc' = [pc EXCEPT !["site-updater"] = "u_read"]
    /\ UNCHANGED <<config, wlocals, pool, to_process, video_queue,
                   unfinished_tasks, stats, pending_lock, done_event,
                   pending_file, plocals, clocals, pills, obs>>

\* line 251: current = stats["success"], leave the lock
u_read ==
    /\ pc["site-updater"] = "u_read"
    /\ ~Exited
    /\ current' = stats.success
    /\ stats_lock' = Release(stats_lock)
    /\ pc' = [pc EXCEPT !["site-updater"] = "u_check"]
    /\ UNCHANGED <<config, last_count, pool, to_process, video_queue,
                   unfinished_tasks, stats, pending_lock, done_event,
                   pending_file, plocals, clocals, pills, obs>>

\* lines 253-256: the test, and the call of generate_site when it holds
u_check ==
    /\ pc["site-updater"] = "u_check"
    /\ ~Exited
    /\ IF SiteDue(current, last_count, site_update)
       THEN /\ pc' = [pc EXCEPT !["site-updater"] = "u_generate_site"]
            /\ obs' = [obs EXCEPT !.site_calls = @ + 1]
       ELSE /\ pc' = [pc EXCEPT !["site-updater"] = "u_loop"]
            /\ UNCHANGED obs
    /\ UNCHANGED <<config, wlocals, pool, shared, plocals, clocals, pills>>

\* lines 256-260: generate_site returns or raises, last_count = current
u_generate_site ==
    /\ pc["site-updater"] = "u_generate_site"
    /\ ~Exited
    /\ \E result \in {"ok", "fail"} :
         /\ pc' = [pc EXCEPT !["site-updater"] = AfterSiteUpdate(result)]
         /\ obs' = [obs EXCEPT !.site_fails = IF result = "fail" THEN @ + 1 ELSE @]
    /\ last_count' = current
    /\ UNCHANGED <<config, current, pool, shared, plocals, clocals, pills>>

site_updater ==
    \/ u_loop
    \/ u_lock_stats
    \/ u_read
    \/ u_check
    \/ u_generate_site

(***************************************************************************)
(* main, lines 352-380: the shutdown sequence.                             *)
(***************************************************************************)
\* line 353: producer_thread.join()
m_join_producer ==
    /\ pc["main"] = "m_join_producer"
    /\ pc["producer"] = "p_done"
    /\ pc' = [pc EXCEPT !["main"] = "m_queue_join"]
    /\ UNCHANGED <<config, wlocals, pool, shared, plocals, clocals, pills, obs>>

\* video_queue.join() returning at once
AllTasksDone_NoWait(unfinished) == TRUE

\* Queue.join blocks until unfinished_tasks is zero
AllTasksDone(unfinished) == unfinished = 0

\* line 356: video_queue.join() returns when every put has its task_done
m_queue_join ==
    /\ pc["main"] = "m_queue_join"
    /\ AllTasksDone(unfinished_tasks)
    /\ pc' = [pc EXCEPT !["main"] = "m_set_done"]
    /\ UNCHANGED <<config, wlocals, pool, shared, plocals, clocals, pills, obs>>

\* Event.set(): the flag is true afterwards
set(event) == TRUE

\* line 359: done_event.set()
m_set_done ==
    /\ pc["main"] = "m_set_done"
    /\ done_event' = set(done_event)
    /\ obs' = [obs EXCEPT !.sets = @ + 1]
    /\ pc' = [pc EXCEPT !["main"] = "m_pills"]
    /\ UNCHANGED <<config, wlocals, pool, to_process, video_queue,
                   unfinished_tasks, stats, stats_lock, pending_lock,
                   pending_file, plocals, clocals, pills>>

\* lines 360-361: one video_queue.put(None) per consumer, each blocking
\* while the queue is full
m_pills ==
    /\ pc["main"] = "m_pills"
    /\ IF pills < consumers
       THEN /\ ~QueueFull(video_queue)
            /\ video_queue' = Append(video_queue, None)
            /\ unfinished_tasks' = unfinished_tasks + 1
            /\ pills' = pills + 1
            /\ UNCHANGED pc
       ELSE /\ pc' = [pc EXCEPT !["main"] = "m_join_consumers"]
            /\ UNCHANGED <<video_queue, unfinished_tasks, pills>>
    /\ UNCHANGED <<config, wlocals, pool, to_process, stats, stats_lock, pending_lock,
                   done_event, pending_file, plocals, clocals, obs>>

\* lines 364-365: t.join(timeout=5) for every consumer returns when the
\* consumer has ended or the timeout has passed
m_join_consumers ==
    /\ pc["main"] = "m_join_consumers"
    /\ pc' = [pc EXCEPT !["main"] = "m_summary"]
    /\ UNCHANGED <<config, wlocals, pool, shared, plocals, clocals, pills, obs>>

\* lines 367-378: the summary; the final regeneration is entered when
\* anything succeeded
m_summary ==
    /\ pc["main"] = "m_summary"
    /\ pc' = [pc EXCEPT !["main"] = IF stats.success > 0
                                    THEN "m_generate_site" ELSE "m_done"]
    /\ UNCHANGED <<config, wlocals, pool, shared, plocals, clocals, pills, obs>>

\* lines 379-380: the final generate_site returns
m_generate_site ==
    /\ pc["main"] = "m_generate_site"
    /\ pc' = [pc EXCEPT !["main"] = "m_done"]
    /\ UNCHANGED <<config, wlocals, pool, shared, plocals, clocals, pills, obs>>

main ==
    \/ main_start
    \/ m_join_producer
    \/ m_queue_join
    \/ m_set_done
    \/ m_pills
    \/ m_join_consumers
    \/ m_summary
    \/ m_generate_site

(***************************************************************************)
(* The run: module state of channel_import_pipeline.py (lines 61-65) and   *)
(* the inputs main reads (lines 280-296).                                  *)
(***************************************************************************)
\* an Event constructed with its flag set
Event_Set == TRUE

\* line 65: Event(), the flag is false
Event == FALSE

Discoveries == UNION {[1..n -> VideoIds] : n \in 1..MaxVideos}

InitState ==
    /\ to_process = <<>>
    /\ video_queue = <<>>
    /\ unfinished_tasks = 0
    /\ stats = [success |-> 0, failed |-> 0, fetched |-> 0, processed |-> 0]
    /\ stats_lock = NoThread
    /\ pending_lock = NoThread
    /\ done_event = Event
    /\ i = 0
    /\ attempts = 0
    /\ consecutive_failures = 0
    /\ last_vpn_switch = 0
    /\ fetched = 0
    /\ pending = <<>>
    /\ item = [c \in Consumers |-> NoItem]
    /\ outcome = [c \in Consumers |-> "none"]
    /\ pills = 0
    /\ last_count = 0
    /\ current = 0
    /\ next_task = 1
    /\ futures_done = 0
    /\ worker = [w \in Workers |-> [task |-> NoItem, attempt |-> 0, pending |-> <<>>]]
    /\ yielded = 0
    /\ last_vpn_switch_at = 0
    /\ obs = [fetch_fails |-> <<>>, fetch_calls |-> <<>>, puts |-> <<>>,
              gets |-> <<>>, results |-> <<>>, counted |-> <<>>,
              acked |-> <<>>, appended |-> <<>>, switched |-> {},
              journaled |-> <<>>, contended |-> FALSE, sets |-> 0,
              site_calls |-> 0, site_fails |-> 0, pfailed |-> {},
              io_errors |-> {}]

Init ==
    /\ videos \in Discoveries
    /\ existing_ids \in ExistingChoices
    /\ consumers \in 1..MaxConsumers
    /\ workers = 0
    /\ vpn_rotate \in RotateChoices
    /\ site_update = 0
    /\ pending_file \in PendingChoices
    /\ InitState
    /\ pc = [t \in Threads |-> IF t = "main" THEN "m_filter" ELSE "idle"]

Next ==
    \/ main
    \/ producer
    \/ consumer

Spec == Init /\ [][Next]_vars

\* runs over a longer channel with one consumer, long enough for a streak
\* of FailureThreshold failed fetches to be followed by another fetch
InitRotate ==
    /\ videos = SubSeq(LongChannel, 1, RotateVideos)
    /\ existing_ids = {}
    /\ consumers = 1
    /\ workers = 0
    /\ vpn_rotate \in LongRotateChoices
    /\ site_update = 0
    /\ pending_file = <<>>
    /\ InitState
    /\ pc = [t \in Threads |-> IF t = "main" THEN "m_filter" ELSE "idle"]

SpecRotate == InitRotate /\ [][Next]_vars

\* runs under a fair scheduler: every thread that can take a step, or can
\* again and again, eventually takes one. The lock and queue waits of the
\* pipeline are weakly fair here because the threads competing for them end.
FairChannel == <<"V1", "V2">>
FairConsumerChoices == {1, 2}

InitFair ==
    /\ videos = FairChannel
    /\ existing_ids = {}
    /\ consumers \in FairConsumerChoices
    /\ workers = 0
    /\ vpn_rotate = 0
    /\ site_update = 0
    /\ pending_file = <<>>
    /\ InitState
    /\ pc = [t \in Threads |-> IF t = "main" THEN "m_filter" ELSE "idle"]

Fairness ==
    /\ WF_vars(main)
    /\ WF_vars(producer)
    /\ \A k \in 1..Len(ConsumerNames) :
         WF_vars(k <= consumers /\ consume(ConsumerNames[k]))

SpecFair == InitFair /\ [][Next]_vars /\ Fairness

\* runs in which reading and writing pending.json can fail
InitJournal ==
    /\ videos = FairChannel
    /\ existing_ids = {}
    /\ consumers = 1
    /\ workers = 0
    /\ vpn_rotate = 0
    /\ site_update = 0
    /\ pending_file \in PendingChoices
    /\ InitState
    /\ pc = [t \in Threads |-> IF t = "main" THEN "m_filter" ELSE "idle"]

NextJournal ==
    \/ main
    \/ producer
    \/ consumer
    \/ p_load_pending_error
    \/ p_save_pending_error

SpecJournal == InitJournal /\ [][NextJournal]_vars

\* runs with the site updater: --site-update above zero
InitWatch ==
    /\ videos = SubSeq(LongChannel, 1, WatchVideos)
    /\ existing_ids = {}
    /\ consumers \in 1..WatchConsumers
    /\ workers = 0
    /\ vpn_rotate = 0
    /\ site_update \in SiteUpdateChoices
    /\ pending_file = <<>>
    /\ InitState
    /\ pc = [t \in Threads |-> IF t = "main" THEN "m_filter" ELSE "idle"]

NextWatch ==
    \/ main
    \/ producer
    \/ consumer
    \/ site_updater

SpecWatch == InitWatch /\ [][NextWatch]_vars


(***************************************************************************)
(* channel_import_parallel.py: main (lines 196-298) and the pool workers   *)
(* running process_video_parallel (lines 115-193).                         *)
(***************************************************************************)
\* line 122
max_retries == 3

\* lines 149-151
CountSuccess(s) == IncProcessed(IncSuccess(s))

\* lines 167-169
CountFailure(s) == IncProcessed(IncFailed(s))

\* line 160: the error is a rate limit and a retry is left
Retries(error, attempt) == error = "blocked" /\ attempt < max_retries - 1

\* line 281
ShouldSwitch(success, last, rot) ==
    success > 0 /\ success > last /\ success % rot = 0

\* lines 227-274: filter the discovery list, submit one task per video
x_start ==
    /\ pc["main"] = "x_filter"
    /\ to_process' = NewVideos(videos, existing_ids)
    /\ obs' = [obs EXCEPT !.journaled = Zeros(Len(to_process'))]
    /\ IF to_process' = <<>>
       THEN pc' = [pc EXCEPT !["main"] = "x_done"]
       ELSE pc' = [t \in Threads |->
                     CASE t = "main" -> "x_as_completed"
                       [] t \in Workers -> "w_idle"
                       [] OTHER -> "idle"]
    /\ UNCHANGED <<config, wlocals, pool, video_queue, unfinished_tasks, stats,
                   stats_lock, pending_lock, done_event, pending_file,
                   plocals, clocals, pills>>

\* lines 277-283: the as_completed loop, with the VPN switch on the number
\* of successes; it ends when every future has been seen
x_as_completed ==
    /\ pc["main"] = "x_as_completed"
    /\ IF yielded = Len(to_process)
       THEN /\ pc' = [pc EXCEPT !["main"] = "x_summary"]
            /\ UNCHANGED <<yielded, last_vpn_switch_at, obs>>
       ELSE /\ yielded < futures_done
            /\ yielded' = yielded + 1
            /\ IF vpn_rotate > 0
                  /\ ShouldSwitch(stats.success, last_vpn_switch_at, vpn_rotate)
               THEN /\ last_vpn_switch_at' = stats.success
                    /\ obs' = [obs EXCEPT !.switched = @ \cup {stats.success}]
               ELSE UNCHANGED <<last_vpn_switch_at, obs>>
            /\ UNCHANGED pc
    /\ UNCHANGED <<config, wlocals, shared, plocals, clocals, pills, workers,
                   next_task, futures_done, worker>>

\* lines 285-298: the summary and generate_site
x_summary ==
    /\ pc["main"] = "x_summary"
    /\ pc' = [pc EXCEPT !["main"] = "x_done"]
    /\ UNCHANGED <<config, wlocals, pool, shared, plocals, clocals, pills, obs>>

\* the executor hands the next submitted task to an idle worker
w_take(w) ==
    /\ pc[w] = "w_idle"
    /\ next_task <= Len(to_process)
    /\ worker' = [worker EXCEPT ![w] = [task |-> next_task, attempt |-> 0,
                                         pending |-> <<>>]]
    /\ next_task' = next_task + 1
    /\ pc' = [pc EXCEPT ![w] = "w_try"]
    /\ UNCHANGED <<config, wlocals, shared, plocals, clocals, pills, workers,
                   futures_done, yielded, last_vpn_switch_at, obs>>

\* lines 125-164: one attempt; the try block ends normally, with a rate
\* limit error or with another error
w_try(w) ==
    /\ pc[w] = "w_try"
    /\ \E error \in {"ok", "blocked", "other"} :
         IF error = "ok"
         THEN /\ pc' = [pc EXCEPT ![w] = "w_lock_success"]
              /\ UNCHANGED worker
         ELSE IF Retries(error, worker[w].attempt)
         THEN /\ worker' = [worker EXCEPT ![w].attempt = @ + 1]
              /\ UNCHANGED pc
         ELSE /\ pc' = [pc EXCEPT ![w] = "w_lock_failed"]
              /\ UNCHANGED worker
    /\ UNCHANGED <<config, wlocals, shared, plocals, clocals, pills, workers,
                   next_task, futures_done, yielded, last_vpn_switch_at, obs>>

\* lines 149 and 167: with stats_lock
w_lock_stats(w) ==
    /\ pc[w] \in {"w_lock_success", "w_lock_failed"}
    /\ Acquirable(stats_lock)
    /\ stats_lock' = w
    /\ pc' = [pc EXCEPT ![w] = IF pc[w] = "w_lock_success"
                                THEN "w_count_success" ELSE "w_count_failed"]
    /\ UNCHANGED <<config, wlocals, pool, to_process, video_queue, unfinished_tasks,
                   stats, pending_lock, done_event, pending_file, plocals,
                   clocals, pills, obs>>

\* lines 150-154: count the success, leave the lock, return
w_count_success(w) ==
    /\ pc[w] = "w_count_success"
    /\ stats' = CountSuccess(stats)
    /\ stats_lock' = Release(stats_lock)
    /\ futures_done' = futures_done + 1
    /\ worker' = [worker EXCEPT ![w].task = NoItem, ![w].attempt = 0]
    /\ pc' = [pc EXCEPT ![w] = "w_idle"]
    /\ UNCHANGED <<config, wlocals, to_process, video_queue, unfinished_tasks,
                   pending_lock, done_event, pending_file, plocals, clocals,
                   pills, workers, next_task, yielded, last_vpn_switch_at, obs>>

\* lines 168-171: count the failure, leave the lock
w_count_failed(w) ==
    /\ pc[w] = "w_count_failed"
    /\ stats' = CountFailure(stats)
    /\ stats_lock' = Release(stats_lock)
    /\ pc' = [pc EXCEPT ![w] = "w_lock_pending"]
    /\ UNCHANGED <<config, wlocals, pool, to_process, video_queue, unfinished_tasks,
                   pending_lock, done_event, pending_file, plocals, clocals,
                   pills, obs>>

\* line 174: with pending_lock
w_lock_pending(w) ==
    /\ pc[w] = "w_lock_pending"
    /\ Acquirable(pending_lock)
    /\ pending_lock' = w
    /\ obs' = [obs EXCEPT !.contended =
                   @ \/ \E v \in Workers \ {w} : pc[v] = "w_lock_pending"]
    /\ pc' = [pc EXCEPT ![w] = "w_load_pending"]
    /\ UNCHANGED <<config, wlocals, pool, to_process, video_queue, unfinished_tasks,
                   stats, stats_lock, done_event, pending_file, plocals,
                   clocals, pills>>

\* line 176: pending = load_pending()
w_load_pending(w) ==
    /\ pc[w] = "w_load_pending"
    /\ worker' = [worker EXCEPT ![w].pending = load_pending(pending_file)]
    /\ pc' = [pc EXCEPT ![w] = "w_save_pending"]
    /\ UNCHANGED <<config, wlocals, shared, plocals, clocals, pills, workers,
                   next_task, futures_done, yielded, last_vpn_switch_at, obs>>

\* lines 177-190: append unless present, save_pending, leave the lock, return
w_save_pending(w) ==
    /\ pc[w] = "w_save_pending"
    /\ LET id == to_process[worker[w].task]
           records == AppendPending(worker[w].pending, id)
       IN  /\ IF records # worker[w].pending
              THEN /\ pending_file' = records
                   /\ obs' = [obs EXCEPT !.appended = Append(@, id),
                                          !.journaled[worker[w].task] = @ + 1]
              ELSE /\ obs' = [obs EXCEPT !.journaled[worker[w].task] = @ + 1]
                   /\ UNCHANGED pending_file
    /\ pending_lock' = Release(pending_lock)
    /\ futures_done' = futures_done + 1
    /\ worker' = [worker EXCEPT ![w] = [task |-> NoItem, attempt |-> 0,
                                         pending |-> <<>>]]
    /\ pc' = [pc EXCEPT ![w] = "w_idle"]
    /\ UNCHANGED <<config, wlocals, to_process, video_queue, unfinished_tasks, stats,
                   stats_lock, done_event, plocals, clocals, pills, workers,
                   next_task, yielded, last_vpn_switch_at>>

process_video_parallel ==
    \E w \in Workers :
        \/ w_take(w)
        \/ w_try(w)
        \/ w_lock_stats(w)
        \/ w_count_success(w)
        \/ w_count_failed(w)
        \/ w_lock_pending(w)
        \/ w_load_pending(w)
        \/ w_save_pending(w)

InitParallel ==
    /\ videos \in Discoveries
    /\ existing_ids \in ExistingChoices
    /\ consumers = 0
    /\ workers \in 1..MaxWorkers
    /\ vpn_rotate \in RotateChoices
    /\ site_update = 0
    /\ pending_file \in PendingChoices
    /\ InitState
    /\ pc = [t \in Threads |-> IF t = "main" THEN "x_filter" ELSE "idle"]

NextParallel ==
    \/ x_start
    \/ x_as_completed
    \/ x_summary
    \/ process_video_parallel

SpecParallel == InitParallel /\ [][NextParallel]_vars

(***************************************************************************)
(* Properties of the pipeline run.                                         *)
(***************************************************************************)
Items == 1..Len(to_process)

\* main has printed the summary: the producer was joined, video_queue.join()
\* has returned, done_event is set and the pills are sent
Completed == pc["main"] = "m_done" /\ to_process # <<>>

\* video_queue.join() at line 356 has returned
JoinReturned ==
    pc["main"] \in {"m_set_done", "m_pills", "m_join_consumers", "m_summary",
                    "m_generate_site"}
    \/ Completed

\* consumer c holds a payload it has taken and not yet acknowledged
Holding(c) ==
    pc[c] \in {"c_process", "c_lock_stats", "c_count", "c_count_processed",
               "c_task_done"}

\* number of records of the journal with this video_id
Records(file, id) == Cardinality({k \in 1..Len(file) : file[k] = id})

\* the fetch of item k raised
FetchFailed(k) ==
    obs.fetch_calls[k] > 0 /\ FetchRaises(obs.fetch_fails[k], obs.fetch_calls[k])

\* the producer has left the iteration of item k
Handled(k) == k < i \/ pc["producer"] = "p_done"

\* C1: at completion of a run, processed = succeeded + failed, whatever
\* fetches failed in the producer and whatever items failed in a consumer.
C1_ProcessedIsSucceededPlusFailed ==
    Completed => stats.processed = stats.success + stats.failed

\* C2: at completion fetched >= processed, and once video_queue.join() has
\* returned nothing is in flight: no payload is queued or held, and every
\* payload counted in fetched is counted in processed.
C2_NothingInFlightAfterJoin ==
    JoinReturned =>
        /\ stats.fetched >= stats.processed
        /\ stats.fetched = stats.processed
        /\ \A k \in Items : obs.puts[k] = obs.counted[k]
        /\ \A n \in 1..Len(video_queue) : video_queue[n] = None
        /\ \A c \in Consumers : ~Holding(c)

C2_Witness ==
    /\ Completed
    /\ stats.fetched = 2
    /\ stats.processed = 2
    /\ stats.failed = 1

\* C3: no item whose id is in the set get_existing_video_ids returned is
\* passed to fetch_transcript, put on the queue or appended to pending.json.
C3_ExistingNeverTouched ==
    /\ \A k \in Items :
         (obs.fetch_calls[k] > 0 \/ obs.puts[k] > 0) => to_process[k] \notin existing_ids
    /\ \A n \in 1..Len(video_queue) :
         video_queue[n] # None => to_process[video_queue[n]] \notin existing_ids
    /\ \A n \in 1..Len(obs.appended) : obs.appended[n] \notin existing_ids

C3_Witness ==
    /\ Completed
    /\ \E n \in 1..Len(videos) : videos[n] \in existing_ids
    /\ \E k \in Items : FetchFailed(k)
    /\ Len(obs.appended) = 1

\* C4: pending.json never holds two records with the same video_id, whatever
\* the interleaving of the threads that append; an id whose append block has
\* run, also in two threads at once, has exactly one record.
C4_OneRecordPerId ==
    /\ \A id \in VideoIds : Records(pending_file, id) <= 1
    /\ \A k \in Items :
         obs.journaled[k] > 0 => Records(pending_file, to_process[k]) = 1

C4_Witness ==
    /\ Len(to_process) = 2
    /\ to_process[1] = to_process[2]
    /\ obs.journaled[1] = 1
    /\ obs.journaled[2] = 1
    /\ obs.contended
    /\ Len(obs.appended) = 1
    /\ Records(pending_file, to_process[1]) = 1

\* C5: the queue never holds more than maxsize entries, payloads and poison
\* pills together; a put on a full queue waits.
C5_QueueBounded == Len(video_queue) <= maxsize

C5_Witness ==
    /\ pc["producer"] = "p_put"
    /\ Len(video_queue) = maxsize
    /\ ~ENABLED p_put

\* C7: when every fetch and every processing step succeeds, the items fetched
\* are exactly the discovered ones whose id is not pre-existing, and the run
\* ends with fetched = processed = their number.
AllSucceeded ==
    /\ \A k \in Items : ~FetchFailed(k)
    /\ \A k \in Items : obs.results[k] # "fail"

NotExisting == {n \in 1..Len(videos) : videos[n] \notin existing_ids}

C7_FetchesExactlyTheNewItems ==
    (pc["main"] = "m_done" /\ AllSucceeded) =>
        /\ stats.fetched = Cardinality(NotExisting)
        /\ stats.processed = Cardinality(NotExisting)
        /\ to_process = SelectSeq(videos, LAMBDA v : v \notin existing_ids)
        /\ \A k \in Items : obs.fetch_calls[k] = 1 /\ obs.puts[k] = 1

C7_Witness ==
    /\ videos = <<"A", "B">>
    /\ existing_ids = {"B"}
    /\ Completed
    /\ AllSucceeded
    /\ stats.fetched = 1
    /\ stats.processed = 1

\* C8: an item whose fetch fails fewer than max_retries times and would then
\* succeed is retried, is put on the queue exactly once and is not appended
\* to pending.json.
C8_TransientFailureIsRetried ==
    \A k \in Items :
        (Handled(k) /\ obs.fetch_fails[k] \in 1..(max_retries - 1)) =>
            /\ obs.fetch_calls[k] = obs.fetch_fails[k] + 1
            /\ obs.puts[k] = 1
            /\ \A n \in 1..Len(obs.appended) : obs.appended[n] # to_process[k]

StartsFetch == pc["producer"] = "p_loop" /\ pc'["producer"] = "p_fetch"

C11_DoneEventMonotonic ==
    /\ done_event = FALSE
    /\ [](obs.sets <= 1)
    /\ [][done_event => done_event']_vars

C11_Witness ==
    /\ Completed
    /\ done_event
    /\ obs.sets = 1
    /\ pc["site-updater"] = "u_exit"
    /\ \A c \in Consumers : pc[c] = "c_exit"

\* a poison pill is appended to the queue by this step
PushesPill ==
    /\ Len(video_queue') = Len(video_queue) + 1
    /\ video_queue'[Len(video_queue')] = None

\* the producer has ended and every payload it put has been taken and
\* acknowledged with task_done
Drained ==
    /\ pc["producer"] = "p_done"
    /\ \A k \in Items : obs.gets[k] = obs.puts[k] /\ obs.acked[k] = obs.puts[k]
    /\ \A n \in 1..Len(video_queue) : video_queue[n] = None

\* C12: done_event is set and a poison pill is put only when the producer
\* has ended and every payload ever put has been taken and acknowledged;
\* the pills are put by main, never by the producer.
C12_ShutdownAfterDrain ==
    /\ []((done_event \/ pills > 0) => Drained)
    /\ [][(done_event' # done_event \/ PushesPill)
            => /\ Drained
               /\ pc["main"] \in {"m_set_done", "m_pills"}
               /\ UNCHANGED <<pc["producer"], plocals>>]_vars

C12_Witness ==
    /\ done_event
    /\ pills = consumers
    /\ consumers = MaxConsumers
    /\ Len(to_process) = 2
    /\ obs.acked[1] = 1
    /\ FetchFailed(2)
    /\ \E n \in 1..Len(video_queue) : video_queue[n] = None

\* C13: every payload put on the queue is taken by exactly one consumer,
\* counted in processed exactly once and acknowledged exactly once, whether
\* its processing succeeded or failed; no two consumers hold the same
\* payload, and when video_queue.join() has returned none is missing.
C13_EachPayloadOnce ==
    /\ \A k \in Items :
         /\ obs.puts[k] <= 1
         /\ obs.gets[k] <= obs.puts[k]
         /\ obs.counted[k] <= obs.gets[k]
         /\ obs.acked[k] <= obs.counted[k]
         /\ obs.gets[k] = IF obs.puts[k] = 1
                             /\ \A n \in 1..Len(video_queue) : video_queue[n] # k
                          THEN 1 ELSE 0
         /\ Cardinality({c \in Consumers : Holding(c) /\ item[c] = k})
              = obs.gets[k] - obs.acked[k]
         /\ obs.acked[k] = 1 => obs.results[k] \in {"ok", "fail"}
    /\ stats.processed = Cardinality({k \in Items : obs.counted[k] = 1})
    /\ JoinReturned =>
         \A k \in Items : obs.puts[k] = 1 =>
             obs.gets[k] = 1 /\ obs.counted[k] = 1 /\ obs.acked[k] = 1

C13_Witness ==
    /\ consumers = 2
    /\ pc["consumer-0"] = "c_task_done"
    /\ pc["consumer-1"] = "c_task_done"
    /\ item["consumer-0"] # item["consumer-1"]
    /\ outcome["consumer-0"] = "ok"
    /\ outcome["consumer-1"] = "fail"
    /\ stats.processed = 2

\* item k is counted in stats["failed"]: its fetch raised in the producer or
\* its processing raised in a consumer
CountedFailed(k) ==
    \/ FetchFailed(k) /\ Handled(k)
    \/ obs.results[k] = "fail" /\ obs.counted[k] = 1

\* C14: at completion every item counted in failed, in the producer or in a
\* consumer, has a record with its id in pending.json.
C14_EveryFailureIsJournaled ==
    Completed =>
        \A k \in Items : CountedFailed(k) => Records(pending_file, to_process[k]) >= 1

\* positions at which a thread is inside, or waits in, a call of the queue
\* (put, get, task_done, join), all of which take the queue's own lock
QueueCalls == {"p_put", "c_get", "c_task_done", "m_queue_join", "m_pills"}

\* the locks thread t holds: stats_lock, pending_lock, the queue's lock
LocksHeld(t) ==
    (IF stats_lock = t THEN {"stats_lock"} ELSE {})
    \cup (IF pending_lock = t THEN {"pending_lock"} ELSE {})
    \cup (IF pc[t] \in QueueCalls THEN {"video_queue.mutex"} ELSE {})

\* C15: no thread holds two of stats_lock, pending_lock and the queue's lock,
\* or waits on the queue while it holds stats_lock or pending_lock; the
\* holder of a lock is inside its with block, where it waits for nothing,
\* so no cycle of waiting threads exists.
C15_OneLockAtATime ==
    /\ \A t \in Threads : Cardinality(LocksHeld(t)) <= 1
    /\ \A t \in Threads :
         stats_lock = t =>
             pc[t] \in {"p_count_fetched", "p_count_failed", "c_count",
                       "c_count_processed", "u_read"}
    /\ \A t \in Threads :
         pending_lock = t => pc[t] \in {"p_load_pending", "p_save_pending"}

C15_Witness ==
    /\ pending_lock = "producer"
    /\ stats_lock = "consumer-0"
    /\ pc["site-updater"] = "u_lock_stats"
    /\ consumers = 2
    /\ pc["consumer-1"] = "c_get"

\* site_updater leaves the test of line 253
UpdaterDecides ==
    pc["site-updater"] = "u_check" /\ pc'["site-updater"] # "u_check"

\* site_updater calls generate_site in this step
UpdaterRegenerates ==
    pc["site-updater"] = "u_check" /\ pc'["site-updater"] = "u_generate_site"

\* the call of generate_site in site_updater ends in this step
UpdaterRegenerated ==
    pc["site-updater"] = "u_generate_site" /\ pc'["site-updater"] # "u_generate_site"

\* C16: in each cycle of site_updater generate_site is invoked if and only
\* if the succeeded count read minus last_count exceeds the interval, and
\* after an invocation last_count is the count read in that cycle.
C16_RegeneratesWhenDeltaExceeds ==
    [][/\ UpdaterDecides => (UpdaterRegenerates <=> current - last_count > site_update)
       /\ UpdaterRegenerated => last_count' = current]_vars

\* C16 as amended: generate_site is invoked if and only if the succeeded
\* count read minus last_count is at least the interval, and after an
\* invocation, returned or raised, last_count is the count read in that cycle.
C16_RegeneratesWhenDeltaReaches ==
    [][/\ UpdaterDecides => (UpdaterRegenerates <=> current - last_count >= site_update)
       /\ UpdaterRegenerated => last_count' = current /\ current' = current]_vars

C16_Witness ==
    /\ site_update = 2
    /\ obs.site_calls = 1
    /\ pc["site-updater"] = "u_loop"
    /\ current = 2
    /\ last_count = 2
    /\ stats.success = 2

\* the call of generate_site in site_updater raises in this step
UpdaterFails == UpdaterRegenerated /\ obs'.site_fails = obs.site_fails + 1

\* C17: a generate_site that raises in site_updater does not end its loop,
\* changes no counter of stats and no state of producer, consumers or main,
\* and is made with no lock held; site_updater leaves its loop only when
\* done_event is set.
C17_UpdaterSurvivesFailure ==
    /\ [][UpdaterFails =>
            /\ pc'["site-updater"] = "u_loop"
            /\ stats' = stats
            /\ UNCHANGED <<shared, plocals, clocals, pills>>
            /\ \A t \in Threads \ {"site-updater"} : pc'[t] = pc[t]]_vars
    /\ [](pc["site-updater"] = "u_generate_site" =>
            stats_lock # "site-updater" /\ pending_lock # "site-updater")
    /\ [](pc["site-updater"] = "u_exit" => done_event)

C17_Witness ==
    /\ obs.site_fails = 1
    /\ obs.site_calls = 2
    /\ pc["site-updater"] = "u_generate_site"
    /\ ~done_event
    /\ pc["producer"] = "p_done"
    /\ stats.processed = 2

\* C18: once done_event is set site_updater invokes generate_site no more,
\* and no generate_site of site_updater runs while main's final
\* generate_site runs; after main has returned site_updater does not run.
C18_UpdaterStoppedBeforeFinalSite ==
    /\ [][done_event => ~UpdaterRegenerates]_vars
    /\ [](pc["main"] = "m_generate_site" => pc["site-updater"] # "u_generate_site")

\* the payload of item k is put on the queue in this step
Puts(k) == obs'.puts[k] = obs.puts[k] + 1

\* the iteration of item k is over: its fetch raised, or its payload is put
Fetched(k) == obs.fetch_calls[k] = 1 /\ (FetchFailed(k) \/ obs.puts[k] = 1)

StatsSections ==
    {"p_count_fetched", "p_count_failed", "c_count", "c_count_processed", "u_read"}

\* items a consumer has counted, by the way their processing ended
CountedAs(result) ==
    Cardinality({k \in Items : obs.results[k] = result /\ obs.counted[k] = 1})

\* C20: every change of a counter of stats is made by the thread that holds
\* stats_lock, inside its with block; a consumer's block adds one to success
\* or to failed and one to processed before the lock is released; so in every
\* state where another thread holds the lock, or nobody does, the counters
\* consumers write agree: processed is success plus the consumers' failures.
C20_StatsChangeUnderLock ==
    /\ [](\A t \in Threads : pc[t] \in StatsSections => stats_lock = t)
    /\ [][stats' # stats =>
            \E t \in Threads :
                /\ stats_lock = t
                /\ pc[t] \in StatsSections
                /\ pc'[t] # pc[t]]_vars
    /\ [][\A c \in Consumers :
            (pc[c] = "c_count_processed" /\ pc'[c] # pc[c]) =>
                /\ stats'.processed = stats.processed + 1
                /\ stats_lock = c
                /\ stats_lock' = NoThread]_vars
    /\ [](stats_lock \notin Consumers =>
            /\ stats.success = CountedAs("ok")
            /\ stats.processed = stats.success + CountedAs("fail"))

C20_Witness ==
    /\ stats_lock = "site-updater"
    /\ pc["site-updater"] = "u_read"
    /\ consumers = 2
    /\ pc["consumer-0"] = "c_lock_stats"
    /\ outcome["consumer-0"] = "ok"
    /\ stats.processed = 1
    /\ stats.failed = 1
    /\ stats.fetched = 2

(***************************************************************************)
(* Properties of the counters, the rotation and the end of the run.        *)
(***************************************************************************)
\* C21: in every reachable state stats["processed"] <= stats["fetched"],
\* however the producer's put and count interleave with the consumers.
C21_ProcessedAtMostFetched == stats.processed <= stats.fetched

\* switch_vpn is called in this iteration of the producer's loop
Rotated == StartsFetch /\ last_vpn_switch' = attempts'

\* C22: with rotation enabled, switch_vpn is called exactly when the attempts
\* made since the last rotation reach vpn_rotate or consecutive_failures has
\* reached FailureThreshold, and a rotation leaves zero attempts since the
\* rotation and zero consecutive failures.
C22_RotatesOnIntervalSinceLastRotation ==
    [][(StartsFetch /\ vpn_rotate > 0) =>
          /\ Rotated <=> \/ attempts' - last_vpn_switch >= vpn_rotate
                         \/ consecutive_failures >= FailureThreshold
          /\ Rotated => /\ attempts' - last_vpn_switch' = 0
                        /\ consecutive_failures' = 0]_vars

\* C23: with vpn_rotate = 0 the producer never calls switch_vpn, also after
\* three or more consecutive failed fetches, and consecutive_failures goes
\* down only in the step that follows a successful fetch and put.
C23_NoRotationWhenDisabled ==
    /\ [](vpn_rotate = 0 => obs.switched = {} /\ last_vpn_switch = 0)
    /\ [][vpn_rotate = 0 => ~Rotated]_vars
    /\ [][(vpn_rotate = 0 /\ consecutive_failures' < consecutive_failures) =>
            /\ pc["producer"] = "p_count_fetched"
            /\ obs.puts[i] = 1
            /\ consecutive_failures' = 0]_vars

C23_Witness ==
    /\ vpn_rotate = 0
    /\ pc["producer"] = "p_fetch"
    /\ attempts = FailureThreshold + 2
    /\ \A k \in 1..FailureThreshold : FetchFailed(k)
    /\ obs.puts[FailureThreshold + 1] = 1
    /\ consecutive_failures = 0
    /\ obs.switched = {}

\* no payload is on the queue
NoPayloadQueued == \A n \in 1..Len(video_queue) : video_queue[n] = None

\* consumer c leaves its loop in this step
Exits(c) == pc[c] # "c_exit" /\ pc'[c] = "c_exit"

\* C24: a consumer leaves its loop only on taking a poison pill or on seeing
\* done_event set while no payload is on the queue, and no consumer has
\* left while a payload is queued or put and not yet acknowledged.
C24_ConsumerExitsAfterDrain ==
    /\ [][\A c \in Consumers : Exits(c) =>
            \/ pc[c] = "c_get" /\ video_queue # <<>> /\ Head(video_queue) = None
            \/ pc[c] = "c_loop" /\ done_event /\ NoPayloadQueued]_vars
    /\ [](\A c \in Consumers : pc[c] = "c_exit" =>
            /\ NoPayloadQueued
            /\ \A k \in Items : obs.acked[k] = obs.puts[k])

C24_Witness ==
    /\ consumers = 2
    /\ pc["consumer-0"] = "c_exit"
    /\ pc["consumer-1"] = "c_exit"
    /\ item["consumer-0"] = None
    /\ item["consumer-1"] = NoItem
    /\ stats.processed = 2
    /\ pills = 2

\* C25: once done_event is set main puts all its pills and reaches the
\* summary, whatever the number of consumers and the capacity of the queue,
\* also when consumers leave on the flag without taking a pill.
C25_ShutdownCompletes ==
    done_event ~> (pills = consumers /\ pc["main"] \in {"m_summary", "m_generate_site", "m_done"})

\* C26: with a consumer and a finite list, under a fair scheduler the
\* producer ends (a put on a full queue does not wait forever) and
\* video_queue.join() returns, also when fetches raise and when the
\* processing of payloads raises.
C26_ProducerEndsAndJoinReturns ==
    /\ <>(pc["producer"] = "p_done")
    /\ <>JoinReturned
    /\ (pc["producer"] = "p_put" /\ QueueFull(video_queue)) ~> ~QueueFull(video_queue)

C26_Witness ==
    /\ pc["main"] = "m_set_done"
    /\ consumers = 1
    /\ obs.results[1] = "fail"
    /\ obs.acked[1] = 1
    /\ FetchFailed(2)
    /\ stats.failed = 2

\* an I/O error of the journal is hit in this step of the producer
JournalError == obs'.io_errors # obs.io_errors

\* C27: an error on reading or writing pending.json in the producer's append
\* does not end the run: pending_lock is released when the block is left,
\* stats["failed"] is incremented for the item, and the producer goes on to
\* the next item until the list is done.
C27_JournalErrorDoesNotAbort ==
    /\ [][JournalError =>
            /\ pc'["producer"] \in {"p_save_pending", "p_lock_failed"}
            /\ pc'["producer"] = "p_lock_failed" => pending_lock' = NoThread
            /\ \A t \in Threads \ {"producer"} : pc'[t] = pc[t]]_vars
    /\ [](pending_lock = "producer" =>
            pc["producer"] \in {"p_load_pending", "p_save_pending"})
    /\ [](\A k \in obs.io_errors : Handled(k) => k \in obs.pfailed)
    /\ [](stats.failed >= Cardinality(obs.pfailed))
    /\ [](pc["producer"] = "p_done" => \A k \in Items : obs.fetch_calls[k] = 1)

C27_Witness ==
    /\ Completed
    /\ obs.io_errors = {1}
    /\ obs.pfailed = {1}
    /\ Records(pending_file, to_process[1]) = 0
    /\ pending_lock = NoThread
    /\ stats.failed = 1
    /\ obs.acked[2] = 1
    /\ stats.success = 1

\* the ways item k has been counted in stats: as a fetch failure by the
\* producer, as a success or as a failure by a consumer
Countings(k) ==
    (IF k \in obs.pfailed THEN {"fetch failed"} ELSE {})
    \cup (IF obs.counted[k] = 1 /\ obs.results[k] = "ok" THEN {"success"} ELSE {})
    \cup (IF obs.counted[k] = 1 /\ obs.results[k] = "fail" THEN {"failed"} ELSE {})

\* C28: at completion stats["success"] + stats["failed"] = len(to_process):
\* every item is counted exactly once, as a fetch failure of the producer or
\* as a success or a failure of a consumer.
C28_EveryItemCountedOnce ==
    Completed =>
        /\ stats.success + stats.failed = Len(to_process)
        /\ \A k \in Items : Cardinality(Countings(k)) = 1
        /\ \A k \in Items : obs.counted[k] <= 1
        /\ stats.failed = Cardinality({k \in Items : Countings(k) \subseteq {"fetch failed", "failed"}})

C28_Witness ==
    /\ Completed
    /\ Len(to_process) = 2
    /\ Countings(1) = {"failed"}
    /\ Countings(2) = {"fetch failed"}
    /\ stats.success = 0
    /\ stats.failed = 2

\* payloads whose fetch has returned and which no consumer has counted yet
InFlight ==
    {k \in Items : /\ obs.fetch_calls[k] = 1
                   /\ ~FetchFailed(k)
                   /\ obs.counted[k] = 0}

\* C29: the payloads fetched and not yet counted as processed are at most
\* maxsize + consumers + 1: the entries of the queue, one item held by each
\* consumer and the one payload the producer is putting.
C29_InFlightBounded ==
    /\ Cardinality(InFlight) <= maxsize + consumers + 1
    /\ Cardinality(InFlight) =
         Cardinality({n \in 1..Len(video_queue) : video_queue[n] # None})
         + Cardinality({c \in Consumers : Holding(c) /\ obs.counted[item[c]] = 0})
         + (IF pc["producer"] = "p_put" THEN 1 ELSE 0)

C29_Witness ==
    /\ pc["producer"] = "p_put"
    /\ QueueFull(video_queue)
    /\ Cardinality(InFlight) = maxsize + consumers + 1
    /\ Len(to_process) > maxsize + consumers + 1
    /\ i < Len(to_process)

\* threads inside the load, test, append and save of an append to
\* pending.json
Appending ==
    {t \in Threads : pc[t] \in {"p_load_pending", "p_save_pending",
                                "w_load_pending", "w_save_pending"}}

====
